---- MODULE Spec2Model ----
(***************************************************************************)
(* Model of class Port (port.hpp): the table of named port records of one  *)
(* kernel, the declaration operations addPort<T> and addPorts<T>, the      *)
(* factory registry built by initializeConstMap<T>, and the lookups        *)
(* declared in the header (getPortType, getPortInfo, getPortInfoFor,       *)
(* count).                                                                 *)
(***************************************************************************)
EXTENDS Integers, Sequences, FiniteSets, TLC

(* ---------------------------- bounds ---------------------------------- *)

\* largest n_ports handed to addPorts
MaxPorts == 3

\* largest alloc_ptr_length (bytes) handed to the constructor
MaxBytes == 4

\* number of calls made on one Port object
MaxCalls == 3

(* ------------------------- input domains ------------------------------ *)

\* element types T the templates are instantiated with
ElemTypes == {"char", "int16_t"}

\* sizeof( T )
SizeOf(T) == IF T = "char" THEN 1 ELSE 2

\* names handed to addPort; "0" is also a name that addPorts generates
PortNames == {"in", "out", "0"}

\* names handed to the lookups; "missing" is never inserted
LookupNames == {"in", "0", "1", "missing"}

(* --------------------------- the state -------------------------------- *)

VARIABLES
    portmap,            \* portmap.map : port name -> PortInfo
    alloc_ptr,          \* "nullptr" or "buffer"
    alloc_ptr_length,   \* length of alloc_ptr in bytes
    status,             \* "running", or "trapped" once the process died
    last,               \* the call made last: [op, T, name, n]
    ret,                \* what that call returned or threw: [tag, val]
    built,              \* the PortInfo objects that call constructed
    divByZero,          \* the last call evaluated x / 0 or x % 0
    firstDecl,          \* history: name -> record of the insert that succeeded
    declKinds,          \* history: the << op, T >> of the declaring calls made
    ncalls              \* history: number of calls made so far

vars == << portmap, alloc_ptr, alloc_ptr_length, status, last, ret, built,
           divByZero, firstDecl, declKinds, ncalls >>

\* raft::kernel * kernel
kernel == "kernel"

EmptyMap == [ nm \in {} |-> 0 ]

(* ------------------------- std::map::insert --------------------------- *)

\* a map assignment ( map[ k ] = v ) instead of an insert: overwrites
MapInsertAssign(m, k, v) ==
    [ map    |-> [ nm \in (DOMAIN m) \cup {k} |-> IF nm = k THEN v ELSE m[nm] ],
      second |-> k \notin DOMAIN m ]

\* an insert into a copy of the map: the table itself never grows
MapInsertIntoCopy(m, k, v) ==
    [ map    |-> m,
      second |-> k \notin DOMAIN m ]

\* map.insert( std::make_pair( k, v ) ): adds the pair only when the key is
\* absent; .second tells whether it was added
MapInsert(m, k, v) ==
    IF k \in DOMAIN m
    THEN [ map |-> m, second |-> FALSE ]
    ELSE [ map    |-> [ nm \in (DOMAIN m) \cup {k} |->
                            IF nm = k THEN v ELSE m[nm] ],
           second |-> TRUE ]

(* ----------------------- initializeConstMap --------------------------- *)

\* RingBuffer< T, type, instr >::make_new_fifo
make_new_fifo(T, type, instr) == << "RingBuffer", T, type, instr >>

\* inner->insert( make_pair( instr, f ) ) on the instr_map_t of one type
InstrInsert(cm, type, instr, f) ==
    [ cm EXCEPT ![type] = MapInsert(cm[type], instr, f).map ]

\* a registry that also registers an instrumented shared-memory queue
initializeConstMapWithInstrShm(T, pi) ==
    LET c0 == MapInsert(pi.const_map, "Heap", EmptyMap).map
        c1 == InstrInsert(c0, "Heap", FALSE, make_new_fifo(T, "Heap", FALSE))
        c2 == InstrInsert(c1, "Heap", TRUE, make_new_fifo(T, "Heap", TRUE))
        c3 == MapInsert(c2, "SharedMemory", EmptyMap).map
        c4 == InstrInsert(c3, "SharedMemory", FALSE,
                          make_new_fifo(T, "SharedMemory", FALSE))
        c5 == InstrInsert(c4, "SharedMemory", TRUE,
                          make_new_fifo(T, "SharedMemory", TRUE))
    IN  [ pi EXCEPT !.const_map = c5 ]

\* initializeConstMap< T >( pi )
initializeConstMap(T, pi) ==
    LET c0 == MapInsert(pi.const_map, "Heap", EmptyMap).map
        c1 == InstrInsert(c0, "Heap", FALSE, make_new_fifo(T, "Heap", FALSE))
        c2 == InstrInsert(c1, "Heap", TRUE, make_new_fifo(T, "Heap", TRUE))
        c3 == MapInsert(c2, "SharedMemory", EmptyMap).map
        c4 == InstrInsert(c3, "SharedMemory", FALSE,
                          make_new_fifo(T, "SharedMemory", FALSE))
    IN  [ pi EXCEPT !.const_map = c4 ]

\* the ( storage class, instrumentation flag ) keys a registry holds
RegistryKeys(cm) ==
    { k \in (DOMAIN cm) \X BOOLEAN : k[2] \in DOMAIN cm[k[1]] }

(* ----------------------------- PortInfo ------------------------------- *)

\* PortInfo pi( typeid( T ) ): no existing buffer
PortInfo(T) ==
    [ type            |-> T,
      my_kernel       |-> "nullptr",
      my_name         |-> "",
      existing_buffer |-> FALSE,
      nitems          |-> 0,
      start_index     |-> 0,
      const_map       |-> EmptyMap ]

\* PortInfo pi( typeid( T ), ptr, nitems, start_index ); ptr is
\* &existing_buff_t[ start_index ], null only when alloc_ptr is
PortInfoBuffer(T, base, nitems, start_index) ==
    [ type            |-> T,
      my_kernel       |-> "nullptr",
      my_name         |-> "",
      existing_buffer |-> (base # "nullptr"),
      nitems          |-> nitems,
      start_index     |-> start_index,
      const_map       |-> EmptyMap ]

(* ------------------------- std::to_string ----------------------------- *)

Digit == << "0", "1", "2", "3", "4", "5", "6", "7", "8", "9" >>

RECURSIVE to_string(_)
\* std::to_string( index ): the decimal digits of index
to_string(i) ==
    IF i < 10 THEN Digit[i + 1]
    ELSE to_string(i \div 10) \o Digit[(i % 10) + 1]

(* ------------------------------ addPort ------------------------------- *)

Call(op, T, name, n) == [ op |-> op, T |-> T, name |-> name, n |-> n ]

Value(v) == [ tag |-> "value", val |-> v ]

Thrown(e) == [ tag |-> e, val |-> FALSE ]

\* history: the records whose insert reported .second = true
Record(fd, pis, seconds) ==
    LET new == { i \in 1..Len(pis) : seconds[i] }
        nms == { pis[i].my_name : i \in new }
    IN  [ nm \in (DOMAIN fd) \cup nms |->
              IF nm \in DOMAIN fd THEN fd[nm]
              ELSE pis[CHOOSE i \in new : pis[i].my_name = nm] ]

\* bool addPort< T >( const std::string port_name )
addPort(T, port_name) ==
    /\ status = "running"
    /\ ncalls < MaxCalls
    /\ LET pi0 == PortInfo(T)
           pi1 == [ pi0 EXCEPT !.my_kernel = kernel, !.my_name = port_name ]
           pi  == initializeConstMap(T, pi1)
           ret_val == MapInsert(portmap, port_name, pi)
       IN  /\ portmap' = ret_val.map
           /\ ret' = Value(ret_val.second)
           /\ built' = << pi >>
           /\ firstDecl' = Record(firstDecl, << pi >>, << ret_val.second >>)
    /\ last' = Call("addPort", T, port_name, 0)
    /\ divByZero' = FALSE
    /\ declKinds' = declKinds \cup { << "addPort", T >> }
    /\ ncalls' = ncalls + 1
    /\ UNCHANGED << alloc_ptr, alloc_ptr_length, status >>

(* ------------------------------ addPorts ------------------------------ *)

\* length / n_ports and length % n_ports on std::size_t.  With n_ports = 0
\* both are undefined: a trapping divide kills the process, a non-trapping
\* one (or a build that sinks the unused division into the loop) goes on
\* with quotient 0 and remainder length.
Divide(length, n_ports) ==
    IF n_ports # 0
    THEN { [ trap |-> FALSE, inc |-> length \div n_ports,
             adder |-> length % n_ports ] }
    ELSE { [ trap |-> TRUE,  inc |-> 0, adder |-> 0 ],
           [ trap |-> FALSE, inc |-> 0, adder |-> length ] }

\* a loop that runs once more than asked
LoopCondInclusive(index, n_ports) == index <= n_ports

\* index < n_ports
LoopCond(index, n_ports) == index < n_ports

\* index * inc
StartIndex(index, inc) == index * inc

\* the remainder handed to the first slice instead of the last
SliceLengthFirst(inc, adder, index, n_ports) ==
    inc + (IF index = 0 THEN adder ELSE 0)

\* inc + ( index == (n_ports - 1) ? adder : 0 )
SliceLength(inc, adder, index, n_ports) ==
    inc + (IF index = n_ports - 1 THEN adder ELSE 0)

RECURSIVE addPortsLoop(_, _, _, _, _, _)
\* for( std::size_t index( 0 ); index < n_ports; index++ ){ ... }
\* acc: the map, the PortInfo objects built and the inserts' .second so far
addPortsLoop(acc, T, index, n_ports, inc, adder) ==
    IF ~ LoopCond(index, n_ports) THEN acc
    ELSE LET start_index == StartIndex(index, inc)
             pi0  == PortInfoBuffer(T, alloc_ptr,
                                    SliceLength(inc, adder, index, n_ports),
                                    start_index)
             name == to_string(index)
             pi1  == [ pi0 EXCEPT !.my_kernel = kernel, !.my_name = name ]
             pi   == initializeConstMap(T, pi1)
             r    == MapInsert(acc.map, name, pi)
         IN  addPortsLoop([ map     |-> r.map,
                            built   |-> Append(acc.built, pi),
                            seconds |-> Append(acc.seconds, r.second) ],
                          T, index + 1, n_ports, inc, adder)

\* a return value that reports a dropped insert
addPortsReturnInserted(seconds) ==
    \A i \in 1..Len(seconds) : seconds[i]

\* return( true )
addPortsReturn(seconds) == TRUE

\* bool addPorts< T >( const std::size_t n_ports = 0 )
addPorts(T, n_ports) ==
    /\ status = "running"
    /\ ncalls < MaxCalls
    /\ LET length == alloc_ptr_length \div SizeOf(T)
       IN  \E d \in Divide(length, n_ports) :
             IF d.trap
             THEN /\ status' = "trapped"
                  /\ ret' = Thrown("SIGFPE")
                  /\ built' = << >>
                  /\ UNCHANGED << portmap, firstDecl >>
             ELSE LET res == addPortsLoop([ map |-> portmap, built |-> << >>,
                                            seconds |-> << >> ],
                                          T, 0, n_ports, d.inc, d.adder)
                  IN  /\ portmap' = res.map
                      /\ ret' = Value(addPortsReturn(res.seconds))
                      /\ built' = res.built
                      /\ firstDecl' = Record(firstDecl, res.built, res.seconds)
                      /\ UNCHANGED status
    /\ last' = Call("addPorts", T, "", n_ports)
    /\ divByZero' = (n_ports = 0)
    /\ declKinds' = declKinds \cup
                       { << IF n_ports = 0 THEN "addPorts0" ELSE "addPorts", T >> }
    /\ ncalls' = ncalls + 1
    /\ UNCHANGED << alloc_ptr, alloc_ptr_length >>

(* ------------------------------ lookups ------------------------------- *)

\* a call that only reads the table
Lookup(call, result) ==
    /\ status = "running"
    /\ ncalls < MaxCalls
    /\ last' = call
    /\ ret' = result
    /\ built' = << >>
    /\ divByZero' = FALSE
    /\ ncalls' = ncalls + 1
    /\ UNCHANGED << portmap, alloc_ptr, alloc_ptr_length, status, firstDecl,
                    declKinds >>

\* const std::type_index& getPortType( const std::string port_name )
getPortType(port_name) ==
    Lookup(Call("getPortType", "", port_name, 0),
           IF port_name \in DOMAIN portmap
           THEN Value(portmap[port_name].type)
           ELSE Thrown("PortNotFound"))

\* PortInfo& getPortInfoFor( const std::string port_name )
getPortInfoFor(port_name) ==
    Lookup(Call("getPortInfoFor", "", port_name, 0),
           IF port_name \in DOMAIN portmap
           THEN Value(portmap[port_name])
           ELSE Thrown("PortNotFound"))

\* a getPortInfo that only rejects a table of more than one port
getPortInfoManyOnly ==
    Lookup(Call("getPortInfo", "", "", 0),
           IF Cardinality(DOMAIN portmap) > 1
           THEN Thrown("AmbiguousPort")
           ELSE Value(IF DOMAIN portmap = {} THEN PortInfo("")
                      ELSE portmap[CHOOSE nm \in DOMAIN portmap : TRUE]))

\* PortInfo& getPortInfo()
getPortInfo ==
    Lookup(Call("getPortInfo", "", "", 0),
           IF Cardinality(DOMAIN portmap) = 1
           THEN Value(portmap[CHOOSE nm \in DOMAIN portmap : TRUE])
           ELSE Thrown("AmbiguousPort"))

\* std::size_t count()
count ==
    Lookup(Call("count", "", "", 0), Value(Cardinality(DOMAIN portmap)))

(* -------------------------- the state machine ------------------------- *)

\* Port( k ) leaves alloc_ptr null and alloc_ptr_length 0;
\* Port( k, ptr, nbytes ) borrows a buffer of nbytes bytes
Init ==
    /\ portmap = EmptyMap
    /\ \/ alloc_ptr = "nullptr" /\ alloc_ptr_length = 0
       \/ alloc_ptr = "buffer"  /\ alloc_ptr_length \in 1..MaxBytes
    /\ status = "running"
    /\ last = Call("Port", "", "", 0)
    /\ ret = Value(FALSE)
    /\ built = << >>
    /\ divByZero = FALSE
    /\ firstDecl = EmptyMap
    /\ declKinds = {}
    /\ ncalls = 0

Next ==
    \/ \E T \in ElemTypes, port_name \in PortNames : addPort(T, port_name)
    \/ \E T \in ElemTypes, n_ports \in 0..MaxPorts : addPorts(T, n_ports)
    \/ \E port_name \in LookupNames : getPortType(port_name)
    \/ \E port_name \in LookupNames : getPortInfoFor(port_name)
    \/ getPortInfo
    \/ count

Spec == Init /\ [][Next]_vars

(* ============================ properties ============================== *)

\* the decimal names the generated ports are expected to carry
Decimal == << "0", "1", "2", "3", "4", "5", "6", "7", "8", "9" >>

\* the slices [start_index, start_index + nitems) of a and b share an element
Overlap(a, b) ==
    /\ a.nitems > 0
    /\ b.nitems > 0
    /\ a.start_index < b.start_index + b.nitems
    /\ b.start_index < a.start_index + a.nitems

RECURSIVE SumNitems(_)
SumNitems(pis) ==
    IF pis = << >> THEN 0 ELSE Head(pis).nitems + SumNitems(Tail(pis))

\* the last call was an addPorts whose insert of some generated name was
\* dropped because the name was already in the table
DroppedInsert ==
    /\ last.op = "addPorts"
    /\ ret.tag = "value"
    /\ \E i \in 1..Len(built) : portmap[built[i].my_name] # built[i]

(* ------------------------------- C1 ----------------------------------- *)

\* C1: an addPort<T>(name) for a name not in the table returns true and
\* stores a record of element type T; an addPort<U>(name) for a name already
\* in the table returns false and leaves the stored element type that of the
\* first declaration.
C1_FirstDeclarationWins ==
    [][ last'.op = "addPort" =>
          LET nm == last'.name
          IN  /\ ret'.tag = "value"
              /\ ret'.val = (nm \notin DOMAIN portmap)
              /\ nm \in DOMAIN portmap'
              /\ nm \notin DOMAIN portmap => portmap'[nm].type = last'.T
              /\ nm \in DOMAIN portmap =>
                   /\ portmap'[nm].type = portmap[nm].type
                   /\ portmap'[nm].type = firstDecl[nm].type ]_vars

\* a second addPort<U>(name), U different from the first declaration's T,
\* was refused
C1_Witness ==
    /\ last.op = "addPort"
    /\ ret = Value(FALSE)
    /\ alloc_ptr = "buffer"
    /\ ~ portmap[last.name].existing_buffer
    /\ portmap[last.name].type # last.T

(* ------------------------------- C3 ----------------------------------- *)

\* C3: a record that is in the table never changes: it stays in the table
\* under its name, and its name, element type and preallocated descriptor
\* (pointer present, offset, length) stay the values of its first insertion.
C3_RecordsImmutable ==
    [][ \A nm \in DOMAIN portmap :
          /\ nm \in DOMAIN portmap'
          /\ portmap'[nm].my_name = nm
          /\ portmap'[nm].type = portmap[nm].type
          /\ portmap'[nm].existing_buffer = portmap[nm].existing_buffer
          /\ portmap'[nm].start_index = portmap[nm].start_index
          /\ portmap'[nm].nitems = portmap[nm].nitems
          /\ portmap'[nm] = firstDecl[nm] ]_vars

\* an addPorts generated a name that was already in the table, with another
\* slice or another element type
C3_Witness ==
    /\ DroppedInsert
    /\ \E i \in 1..Len(built) :
         LET old == portmap[built[i].my_name]
         IN  \/ old.nitems # built[i].nitems
             \/ old.start_index # built[i].start_index
             \/ old.type # built[i].type

(* ------------------------------- C9 ----------------------------------- *)

\* C9: addPorts<T>(n) with n > 0 returns true on every call, also when
\* inserts of generated names were dropped.
C9_AddPortsReturnsTrue ==
    [][ (last'.op = "addPorts" /\ last'.n > 0) => ret' = Value(TRUE) ]_vars

\* an addPorts that dropped an insert returned true
C9_Witness ==
    /\ DroppedInsert
    /\ last.n > 0
    /\ ret = Value(TRUE)

(* ------------------------------- C2 ----------------------------------- *)

\* C2: over a buffer of L = alloc_ptr_length / sizeof(T) elements,
\* addPorts<T>(n), n > 0, builds n slices named "0" .. "n-1"; slice i starts
\* at i * floor(L/n); slice i < n-1 has length floor(L/n) and slice n-1 has
\* length floor(L/n) + (L mod n); the slices are pairwise non-overlapping and
\* their lengths sum to L; every slice whose name was free is in the table.
C2_SlicesPartitionBuffer ==
    [][ (last'.op = "addPorts" /\ last'.n > 0) =>
          LET n == last'.n
              L == alloc_ptr_length \div SizeOf(last'.T)
              b == built'
          IN  /\ Len(b) = n
              /\ \A i \in 0..(n - 1) :
                   /\ b[i + 1].my_name = Decimal[i + 1]
                   /\ b[i + 1].type = last'.T
                   /\ b[i + 1].start_index = i * (L \div n)
                   /\ b[i + 1].nitems =
                        IF i < n - 1 THEN L \div n ELSE (L \div n) + (L % n)
                   /\ b[i + 1].start_index + b[i + 1].nitems <= L
                   /\ Decimal[i + 1] \notin DOMAIN portmap =>
                        /\ Decimal[i + 1] \in DOMAIN portmap'
                        /\ portmap'[Decimal[i + 1]] = b[i + 1]
              /\ \A i, j \in 1..n : i # j => ~ Overlap(b[i], b[j])
              /\ SumNitems(b) = L ]_vars

\* an addPorts over a buffer whose length is not a multiple of n: the last
\* slice is longer than the first, and all slices went into the table
C2_Witness ==
    /\ last.op = "addPorts"
    /\ last.n = MaxPorts
    /\ Len(built) = MaxPorts
    /\ built[MaxPorts].nitems > built[1].nitems
    /\ built[1].nitems > 0
    /\ \A i \in 1..Len(built) : portmap[built[i].my_name] = built[i]

(* ------------------------------- C4 ----------------------------------- *)

\* the names a declaring call hands to insert
CallNames(c) ==
    IF c.op = "addPort" THEN { c.name }
    ELSE IF c.op = "addPorts" THEN { Decimal[i] : i \in 1..c.n }
    ELSE {}

\* C4: count() returns the number of distinct names inserted so far; the
\* size of the table never decreases, grows by the number of names of the
\* call that were not yet present, and so stays the same when all were.
C4_CountIsDistinctNames ==
    [][ /\ last'.op = "count" =>
             ret' = Value(Cardinality(DOMAIN firstDecl'))
        /\ Cardinality(DOMAIN portmap') >= Cardinality(DOMAIN portmap)
        /\ status' = "running" =>
             Cardinality(DOMAIN portmap') =
                Cardinality(DOMAIN portmap) +
                Cardinality(CallNames(last') \ DOMAIN portmap)
        /\ DOMAIN portmap' = DOMAIN firstDecl' ]_vars

\* count() returned 2 after addPort( "0" ) and an addPorts( 2 ) whose insert
\* of "0" was dropped: three inserts, two distinct names
C4_Witness ==
    /\ last.op = "count"
    /\ ret = Value(2)
    /\ alloc_ptr = "buffer"
    /\ DOMAIN portmap = { "0", "1" }
    /\ ~ portmap["0"].existing_buffer
    /\ portmap["1"].existing_buffer

(* ------------------------------- C5 ----------------------------------- *)

\* C5: getPortInfo() returns a record iff the table holds exactly one entry
\* and throws AmbiguousPort for zero or several; the table is unchanged.
C5_GetPortInfoSinglePort ==
    [][ last'.op = "getPortInfo" =>
          /\ (ret'.tag = "value") <=> (Cardinality(DOMAIN portmap) = 1)
          /\ Cardinality(DOMAIN portmap) # 1 => ret' = Thrown("AmbiguousPort")
          /\ Cardinality(DOMAIN portmap) = 1 =>
               \E nm \in DOMAIN portmap : ret' = Value(portmap[nm])
          /\ portmap' = portmap ]_vars

\* getPortInfo() threw on a table of two ports
C5_Witness ==
    /\ last.op = "getPortInfo"
    /\ ret = Thrown("AmbiguousPort")
    /\ Cardinality(DOMAIN portmap) = 2

(* ------------------------------- C6 ----------------------------------- *)

\* C6: getPortType(name) and getPortInfoFor(name) throw PortNotFound iff no
\* insert under that name ever succeeded; otherwise they return the type
\* tag, resp. the record, of the first declaration under that name.
C6_LookupByName ==
    last.op \in {"getPortType", "getPortInfoFor"} =>
        /\ (ret.tag = "PortNotFound") <=> (last.name \notin DOMAIN firstDecl)
        /\ last.name \in DOMAIN firstDecl =>
             ret = Value(IF last.op = "getPortType"
                         THEN firstDecl[last.name].type
                         ELSE firstDecl[last.name])

\* a lookup of a name that was declared twice with different element types
C6_Witness ==
    /\ last.op = "getPortType"
    /\ ret.tag = "value"
    /\ declKinds = { << "addPort", "char" >>, << "addPort", "int16_t" >> }
    /\ Cardinality(DOMAIN portmap) = 1

(* ------------------------------- C7 ----------------------------------- *)

\* C7: the registry of every record in the table holds exactly the keys
\* (Heap, uninstrumented), (Heap, instrumented) and (SharedMemory,
\* uninstrumented), each bound to the queue constructor of the record's
\* element type; (SharedMemory, instrumented) is not registered.
C7_RegistryKeys ==
    \A nm \in DOMAIN portmap :
        LET cm == portmap[nm].const_map
        IN  /\ RegistryKeys(cm) = { << "Heap", FALSE >>, << "Heap", TRUE >>,
                                    << "SharedMemory", FALSE >> }
            /\ DOMAIN cm = { "Heap", "SharedMemory" }
            /\ << "SharedMemory", TRUE >> \notin RegistryKeys(cm)
            /\ \A k \in RegistryKeys(cm) :
                 cm[k[1]][k[2]] =
                    << "RingBuffer", portmap[nm].type, k[1], k[2] >>

\* the table holds a record made by addPort and one made by addPorts
C7_Witness ==
    /\ \E nm \in DOMAIN portmap : portmap[nm].existing_buffer
    /\ \E nm \in DOMAIN portmap : ~ portmap[nm].existing_buffer
    /\ << "addPort", "char" >> \in declKinds

(* ------------------------------- C8 ----------------------------------- *)

\* C8 as stated: addPorts<T>(0) divides by zero before any insertion and
\* ends in an error state, without a failure value and with the table
\* unchanged.
C8_AsStated ==
    [][ (last'.op = "addPorts" /\ last'.n = 0) =>
          /\ divByZero'
          /\ status' = "trapped"
          /\ ret'.tag # "InvalidArgument"
          /\ ret' # Value(FALSE)
          /\ portmap' = portmap ]_vars

\* C8 amended: addPorts<T>(0) divides by zero before any insertion; it
\* either traps or runs the loop zero times and returns true; it never
\* returns a failure value, and the table is unchanged.
C8_DivisionByZero ==
    [][ (last'.op = "addPorts" /\ last'.n = 0) =>
          /\ divByZero'
          /\ \/ status' = "trapped" /\ ret' = Thrown("SIGFPE")
             \/ status' = "running" /\ ret' = Value(TRUE)
          /\ ret'.tag # "InvalidArgument"
          /\ ret' # Value(FALSE)
          /\ built' = << >>
          /\ portmap' = portmap ]_vars

\* addPorts<T>(0) returned true on a table that already held ports
C8_Witness ==
    /\ last.op = "addPorts"
    /\ last.n = 0
    /\ divByZero
    /\ status = "running"
    /\ ret = Value(TRUE)
    /\ portmap # EmptyMap

(* ------------------------------- C10 ---------------------------------- *)

\* C10: after addPorts<T>(n) calls only, all n > 0 and all of one element
\* type T, the preallocated slices of the records in the table are pairwise
\* non-overlapping.
C10_SlicesDisjoint ==
    (\E T \in ElemTypes : declKinds \subseteq { << "addPorts", T >> }) =>
        \A nm1, nm2 \in DOMAIN portmap :
            nm1 # nm2 => ~ Overlap(portmap[nm1], portmap[nm2])

====
